---- MODULE Spec2Model ----
(***************************************************************************)
(* Model of the options dashboard: data_fetchers.py (fetch and shape),     *)
(* plotting_utils.py (aggregate) and streamlit_app.py (the two button      *)
(* handlers).                                                              *)
(*                                                                         *)
(* Representation.  Python None and pandas NaN in a numeric position are   *)
(* the number None (-1); every quantity of the program is non-negative.    *)
(* A strike is stored as a multiple of 1/StrikeUnit, so that non-integer   *)
(* strikes exist and int() is a real truncation.  A DataFrame is a         *)
(* sequence of rows; a value that may be None is a record with an isNone   *)
(* flag.  Columns no operation of the program looks at (Last_Price, Bid,   *)
(* Ask, IV, Change_in_OI, Underlying, Timestamp) are left out of the rows. *)
(***************************************************************************)
EXTENDS Integers, Sequences, FiniteSets, TLC

None == -1

\* ---- bounds of the model ------------------------------------------------
MaxRows == 3        \* rows of an equity chain, call and put table together
MaxUSStrike == 2    \* equity strikes are 1..MaxUSStrike
MaxDate == 2        \* expiration dates are 1..MaxDate (date order = number order)
MaxExp == 2         \* expiration dates listed by the provider
MaxEntries == 2     \* entries of records.data of an index payload
MaxStrike == 1      \* index strikes are 1..MaxStrike, in units of 1/StrikeUnit
StrikeUnit == 2     \* an index strike s stands for the number s / StrikeUnit
BaseStrikes == 19   \* strikes of the fixed part of a wide chain
BaseVol == 2        \* volume of each row of the fixed part
MaxExtra == 2       \* free rows added to the fixed part of a wide chain
ExtraStrikes == 2   \* the free rows use the strikes above the fixed part
ExtraVol == 2       \* volumes of the free rows are 1..ExtraVol

\* ---- program constants --------------------------------------------------
TopN == 20

\* the sidebar's tickers; the first two of the ten stand for all of them
symbols == <<"AAPL", "SPY">>

\* ---- sequences ----------------------------------------------------------
\* all sequences over S of length 0..n
SeqUpTo(S, n) == UNION {[1..k -> S] : k \in 0..n}

Range(s) == {s[i] : i \in DOMAIN s}

\* ---- pandas: DataFrame.sort_values(by=['Type', 'Strike']) ---------------
\* string order of the type labels: 'CE' < 'PE', 'Call' < 'Put'
TypeRank(t) == IF t \in {"Call", "CE"} THEN 0 ELSE 1

\* ascending order on a numeric column, NaN last (na_position='last')
StrikeLE(a, b) == b = None \/ (a # None /\ a <= b)

\* RowLE with the type column left out of the sort keys
RowLE_strike_only(a, b) == StrikeLE(a.Strike, b.Strike)

RowLE(a, b) ==
    \/ TypeRank(a.Type) < TypeRank(b.Type)
    \/ TypeRank(a.Type) = TypeRank(b.Type) /\ StrikeLE(a.Strike, b.Strike)

RECURSIVE InsertRow(_, _)
InsertRow(r, s) ==
    IF s = <<>> THEN <<r>>
    ELSE IF RowLE(s[1], r) THEN <<s[1]>> \o InsertRow(r, Tail(s))
    ELSE <<r>> \o s

\* a multi-column sort is a stable lexsort: equal keys keep their order
RECURSIVE sort_values(_)
sort_values(s) ==
    IF s = <<>> THEN <<>>
    ELSE InsertRow(s[Len(s)], sort_values(SubSeq(s, 1, Len(s) - 1)))

\* ---- data_fetchers.py: equity path --------------------------------------
\* row.get(key, default) on a row of a provider table
RowGet(row, key, default) == IF key \in row.cols THEN row[key] ELSE default

\* the rows a provider table can hold: one contract traded on a strike; the
\* strike column may be absent
USRows ==
    [cols : {{"strike", "volume"}}, strike : 1..MaxUSStrike, volume : {1}]
    \cup [cols : {{"volume"}}, strike : {None}, volume : {1}]

USTables == SeqUpTo(USRows, MaxRows)

NoOptionsData ==
    [isNone |-> TRUE, symbol |-> "", expiration_date |-> None,
     calls |-> <<>>, puts |-> <<>>]

\* fetch_options_chain: listing is the provider's answer to ticker.options,
\* chain its answer to ticker.option_chain(date); ok = FALSE is a raised
\* exception
fetch_options_chain(symbol, listing, chain) ==
    IF ~listing.ok THEN NoOptionsData
    ELSE IF listing.dates = <<>> THEN NoOptionsData
    ELSE IF ~chain.ok THEN NoOptionsData
    ELSE [isNone |-> FALSE, symbol |-> symbol,
          expiration_date |-> listing.dates[1],
          calls |-> chain.calls, puts |-> chain.puts]

USRecord(symbol, expiration_date, option_type, row) ==
    [Symbol |-> symbol,
     Type |-> IF option_type = "calls" THEN "Call" ELSE "Put",
     Strike |-> RowGet(row, "strike", 0),
     Volume |-> RowGet(row, "volume", 0),
     Open_Interest |-> RowGet(row, "openInterest", 0),
     Expiration_Date |-> expiration_date]

NoFrame == [isNone |-> TRUE, rows |-> <<>>]

Frame(rows) == [isNone |-> FALSE, rows |-> rows]

empty(df) == df.rows = <<>>

process_options_data(options_data) ==
    IF options_data.isNone THEN NoFrame
    ELSE LET recs(option_type) ==
                 [i \in DOMAIN options_data[option_type] |->
                     USRecord(options_data.symbol, options_data.expiration_date,
                              option_type, options_data[option_type][i])]
             records == recs("calls") \o recs("puts")
         IN  Frame(sort_values(records))

\* ---- data_fetchers.py: index path ---------------------------------------
\* dict.get(key) on a sub-object of the payload: None when the key is absent
DictGet(d, key) == IF key \in d.keys THEN d[key] ELSE None

\* the result of item.get('CE') / item.get('PE'): None (isDict = FALSE),
\* the empty dict, a dict without its openInterest and a dict with both
\* quantities the program aggregates, each of one contract
NoSide == [isDict |-> FALSE, keys |-> {}, openInterest |-> None,
           totalTradedVolume |-> None]

NiftySides ==
    {NoSide,
     [isDict |-> TRUE, keys |-> {}, openInterest |-> None,
      totalTradedVolume |-> None],
     [isDict |-> TRUE, keys |-> {"totalTradedVolume"}, openInterest |-> None,
      totalTradedVolume |-> 1],
     [isDict |-> TRUE, keys |-> {"openInterest", "totalTradedVolume"},
      openInterest |-> 1, totalTradedVolume |-> 1]}

\* an entry of records.data; strikePrice = None when the key is absent
NiftyItems ==
    [strikePrice : {None} \cup 1..MaxStrike, CE : NiftySides, PE : NiftySides]

\* the scraper's results: None, {}, {'records': {}} and
\* {'records': {'data': [...]}}
NoPayload == [isNone |-> TRUE, hasRecords |-> FALSE, hasData |-> FALSE,
              data |-> <<>>]

NiftyPayloads ==
    {NoPayload,
     [isNone |-> FALSE, hasRecords |-> FALSE, hasData |-> FALSE, data |-> <<>>],
     [isNone |-> FALSE, hasRecords |-> TRUE, hasData |-> FALSE, data |-> <<>>]}
    \cup [isNone : {FALSE}, hasRecords : {TRUE}, hasData : {TRUE},
          data : SeqUpTo(NiftyItems, MaxEntries)]

\* truth value of the payload (None and the empty dict are false)
PayloadTruthy(data) == ~data.isNone /\ data.hasRecords

\* truth value of a sub-object (None and the empty dict are false)
SideTruthy(side) == side.isDict /\ side.keys # {}

NiftyRecord(option_type, strike_price, side) ==
    [Symbol |-> "NIFTY",
     Type |-> option_type,
     Strike |-> strike_price,
     Open_Interest |-> DictGet(side, "openInterest"),
     Volume |-> DictGet(side, "totalTradedVolume")]

\* ItemRecords skipping the whole strike when one side is missing
ItemRecords_whole_strike(item) ==
    IF SideTruthy(item.CE) /\ SideTruthy(item.PE)
      THEN <<NiftyRecord("CE", item.strikePrice, item.CE),
             NiftyRecord("PE", item.strikePrice, item.PE)>>
      ELSE <<>>

ItemRecords(item) ==
    (IF SideTruthy(item.CE)
       THEN <<NiftyRecord("CE", item.strikePrice, item.CE)>> ELSE <<>>)
    \o
    (IF SideTruthy(item.PE)
       THEN <<NiftyRecord("PE", item.strikePrice, item.PE)>> ELSE <<>>)

RECURSIVE NiftyRecords(_)
NiftyRecords(items) ==
    IF items = <<>> THEN <<>>
    ELSE ItemRecords(items[1]) \o NiftyRecords(Tail(items))

process_nifty_options_data(data) ==
    IF ~PayloadTruthy(data) THEN NoFrame
    ELSE LET records == IF data.hasRecords /\ data.hasData
                          THEN NiftyRecords(data.data) ELSE <<>>
         IN  Frame(sort_values(records))

\* ---- plotting_utils.py --------------------------------------------------
\* df.groupby(by)[col].sum() at one key: NaN values are skipped
RECURSIVE SumWhere(_, _, _, _)
SumWhere(rows, by, key, col) ==
    IF rows = <<>> THEN 0
    ELSE (IF rows[1][by] = key /\ rows[1][col] # None THEN rows[1][col] ELSE 0)
         + SumWhere(Tail(rows), by, key, col)

RECURSIVE Ascending(_)
Ascending(S) ==
    IF S = {} THEN <<>>
    ELSE LET m == CHOOSE x \in S : \A y \in S : x <= y
         IN  <<m>> \o Ascending(S \ {m})

\* df.groupby('Strike')['Volume'].sum(): one entry per strike, strikes
\* ascending, rows with a NaN strike dropped
groupby_Strike_Volume(df) ==
    LET ks == Ascending({df.rows[i].Strike : i \in DOMAIN df.rows} \ {None})
    IN  [i \in DOMAIN ks |->
            [Strike |-> ks[i],
             Volume |-> SumWhere(df.rows, "Strike", ks[i], "Volume")]]

\* df.groupby('Type')['Open_Interest'].sum(): the types that occur
TypesOf(df) == {df.rows[i].Type : i \in DOMAIN df.rows}

OISum(df, type) == SumWhere(df.rows, "Type", type, "Open_Interest")

\* InsertDesc with equal values in reverse order (keep='last')
RECURSIVE InsertDesc_keep_last(_, _)
InsertDesc_keep_last(e, s) ==
    IF s = <<>> THEN <<e>>
    ELSE IF s[1].Volume > e.Volume
           THEN <<s[1]>> \o InsertDesc_keep_last(e, Tail(s))
    ELSE <<e>> \o s

RECURSIVE InsertDesc(_, _)
InsertDesc(e, s) ==
    IF s = <<>> THEN <<e>>
    ELSE IF s[1].Volume >= e.Volume THEN <<s[1]>> \o InsertDesc(e, Tail(s))
    ELSE <<e>> \o s

RECURSIVE SortDesc(_)
SortDesc(s) ==
    IF s = <<>> THEN <<>>
    ELSE InsertDesc(s[Len(s)], SortDesc(SubSeq(s, 1, Len(s) - 1)))

\* nlargest keeping one entry too many
nlargest_one_more(series, n) ==
    LET sorted == SortDesc(series)
    IN  SubSeq(sorted, 1, IF Len(sorted) < n + 1 THEN Len(sorted) ELSE n + 1)

\* Series.nlargest(n), keep='first': descending, equal values in the order
\* of the series, the first n
nlargest(series, n) ==
    LET sorted == SortDesc(series)
    IN  SubSeq(sorted, 1, IF Len(sorted) < n THEN Len(sorted) ELSE n)

\* df[df['Strike'].isin(top_strikes_df['Strike'])]
isin_rows(df, top) ==
    SelectSeq(df.rows, LAMBDA r : r.Strike \in {top[i].Strike : i \in DOMAIN top})

RECURSIVE SumColumn(_, _)
SumColumn(rows, col) ==
    IF rows = <<>> THEN 0
    ELSE (IF rows[1][col] # None THEN rows[1][col] ELSE 0)
         + SumColumn(Tail(rows), col)

NoRatio == [defined |-> FALSE, num |-> 0, den |-> 1]

NoPlots == [fig_oi |-> FALSE, fig_volume |-> FALSE, fig_pc_ratio |-> FALSE,
            oi_pie |-> FALSE, top_strikes |-> <<>>, plot_df |-> <<>>,
            volume_bars |-> FALSE, pc_ratio |-> NoRatio]

\* the figures of generate_us_plots; a figure that is None is FALSE
generate_us_plots(df) ==
    IF df.isNone \/ empty(df) THEN NoPlots
    ELSE LET top_strikes_df == nlargest(groupby_Strike_Volume(df), TopN)
             plot_df == isin_rows(df, top_strikes_df)
         IN  [fig_oi |-> TRUE, fig_volume |-> TRUE, fig_pc_ratio |-> FALSE,
              oi_pie |-> SumColumn(df.rows, "Open_Interest") > 0,
              top_strikes |-> top_strikes_df, plot_df |-> plot_df,
              volume_bars |-> plot_df # <<>> /\ SumColumn(plot_df, "Volume") > 0,
              pc_ratio |-> NoRatio]

\* put_call_ratio with the two sums exchanged
put_call_ratio_inverted(df) ==
    IF "PE" \in TypesOf(df) /\ "CE" \in TypesOf(df) /\ OISum(df, "CE") > 0
      THEN [defined |-> TRUE, num |-> OISum(df, "CE"), den |-> OISum(df, "PE")]
      ELSE NoRatio

\* the put-call ratio is kept as the fraction num / den
put_call_ratio(df) ==
    IF "PE" \in TypesOf(df) /\ "CE" \in TypesOf(df) /\ OISum(df, "CE") > 0
      THEN [defined |-> TRUE, num |-> OISum(df, "PE"), den |-> OISum(df, "CE")]
      ELSE NoRatio

generate_nifty_plots(df) ==
    IF df.isNone \/ empty(df) THEN NoPlots
    ELSE LET top_strikes_df == nlargest(groupby_Strike_Volume(df), TopN)
             plot_df == isin_rows(df, top_strikes_df)
         IN  [fig_oi |-> TRUE, fig_volume |-> TRUE, fig_pc_ratio |-> TRUE,
              oi_pie |-> SumColumn(df.rows, "Open_Interest") > 0,
              top_strikes |-> top_strikes_df, plot_df |-> plot_df,
              volume_bars |-> plot_df # <<>> /\ SumColumn(plot_df, "Volume") > 0,
              pc_ratio |-> put_call_ratio(df)]

\* ---- the external collaborators' answers --------------------------------
\* ticker.info: an exception (ok = FALSE) or the info mapping
InfoAnswers == [ok : BOOLEAN]

\* ticker.options: an exception or the tuple of expiration dates as listed,
\* each date once
Listings ==
    {[ok |-> FALSE, dates |-> <<>>]}
    \cup [ok : {TRUE},
          dates : {l \in SeqUpTo(1..MaxDate, MaxExp) :
                     \A i, j \in DOMAIN l : i # j => l[i] # l[j]}]

\* ticker.option_chain(date): an exception or the two tables
Chains ==
    {[ok |-> FALSE, calls |-> <<>>, puts |-> <<>>]}
    \cup {[ok |-> TRUE, calls |-> t[1], puts |-> t[2]] :
            t \in {u \in USTables \X USTables : Len(u[1]) + Len(u[2]) <= MaxRows}}

\* nse_optionchain_scrapper('NIFTY'): an exception or a payload
ScraperAnswers ==
    {[ok |-> FALSE, payload |-> NoPayload]}
    \cup [ok : {TRUE}, payload : NiftyPayloads]

get_stock_info(symbol, answer) ==
    IF answer.ok THEN [isNone |-> FALSE, symbol |-> symbol]
    ELSE [isNone |-> TRUE, symbol |-> ""]

fetch_nifty_options(answer) == IF answer.ok THEN answer.payload ELSE NoPayload

\* ---- streamlit_app.py: the index tab's widgets --------------------------
\* int(x) of a non-negative number stored in units of 1/StrikeUnit
int(x) == x \div StrikeUnit

StrikesOf(df) == {df.rows[i].Strike : i \in DOMAIN df.rows} \ {None}

\* Series.min() / Series.max(): NaN is skipped, NaN when nothing is left
series_min(S) == IF S = {} THEN None ELSE CHOOSE x \in S : \A y \in S : x <= y

series_max(S) == IF S = {} THEN None ELSE CHOOSE x \in S : \A y \in S : x >= y

\* what st.slider can return for (min_strike, max_strike): any sub-range
SliderRanges(min_strike, max_strike) ==
    {r \in (min_strike..max_strike) \X (min_strike..max_strike) : r[1] <= r[2]}

\* lines 155-162; a comparison with a NaN strike is false
apply_filters(df, type_filter, range) ==
    SelectSeq(df.rows,
        LAMBDA r : /\ (type_filter = "All" \/ r.Type = type_filter)
                   /\ r.Strike # None
                   /\ r.Strike >= range[1] * StrikeUnit
                   /\ r.Strike <= range[2] * StrikeUnit)

\* ---- state --------------------------------------------------------------
VARIABLES
    pc,                 \* position in the script run
    pressed,            \* the button of this run: "none", "us" or "nifty"
    selected_symbol,
    listing,            \* fetch_options_chain's view of ticker.options
    chain_answer,       \* and of ticker.option_chain(expiration_date)
    options_data,
    df,
    plots,              \* the figures returned by generate_*_plots
    nifty_raw_data,
    df_nifty,
    option_type_filter,
    strike_range,
    filtered_df,
    shown,              \* the elements the run has put on the page
    crashed             \* an exception left the script

vars == <<pc, pressed, selected_symbol, listing, chain_answer, options_data,
          df, plots, nifty_raw_data, df_nifty, option_type_filter,
          strike_range, filtered_df, shown, crashed>>

NoListing == [ok |-> FALSE, dates |-> <<>>]

NoChain == [ok |-> FALSE, calls |-> <<>>, puts |-> <<>>]

\* every run of the script starts from empty results
StartRun ==
    /\ listing' = NoListing
    /\ chain_answer' = NoChain
    /\ options_data' = NoOptionsData
    /\ df' = NoFrame
    /\ plots' = NoPlots
    /\ nifty_raw_data' = NoPayload
    /\ df_nifty' = NoFrame
    /\ option_type_filter' = "All"
    /\ strike_range' = <<0, 0>>
    /\ filtered_df' = <<>>
    /\ crashed' = FALSE

\* first run of the script: no button pressed, both tabs show their hint
Init ==
    /\ pc = "ready"
    /\ pressed = "none"
    /\ selected_symbol = symbols[1]
    /\ shown = {"us_info", "nifty_info"}
    /\ listing = NoListing
    /\ chain_answer = NoChain
    /\ options_data = NoOptionsData
    /\ df = NoFrame
    /\ plots = NoPlots
    /\ nifty_raw_data = NoPayload
    /\ df_nifty = NoFrame
    /\ option_type_filter = "All"
    /\ strike_range = <<0, 0>>
    /\ filtered_df = <<>>
    /\ crashed = FALSE

\* ---- US Market tab (streamlit_app.py 35-85) -----------------------------
PressUS ==
    /\ pc = "ready"
    /\ \E sym \in Range(symbols) : selected_symbol' = sym
    /\ pressed' = "us"
    /\ shown' = {}
    /\ StartRun
    /\ pc' = "us_info"

\* lines 51-57
GetStockInfo ==
    /\ pc = "us_info"
    /\ \E answer \in InfoAnswers :
         LET stock_info == get_stock_info(selected_symbol, answer)
         IN  shown' = IF stock_info.isNone THEN shown
                      ELSE shown \cup {"us_stock_info"}
    /\ pc' = "us_fetch"
    /\ UNCHANGED <<pressed, selected_symbol, listing, chain_answer,
                   options_data, df, plots, nifty_raw_data, df_nifty,
                   option_type_filter, strike_range, filtered_df, crashed>>

\* line 60
FetchOptionsChain ==
    /\ pc = "us_fetch"
    /\ \E l \in Listings :
         \E c \in IF l.ok /\ l.dates # <<>> THEN Chains ELSE {NoChain} :
            /\ listing' = l
            /\ chain_answer' = c
            /\ options_data' = fetch_options_chain(selected_symbol, l, c)
    /\ pc' = "us_process"
    /\ UNCHANGED <<pressed, selected_symbol, df, plots, nifty_raw_data,
                   df_nifty, option_type_filter, strike_range, filtered_df,
                   shown, crashed>>

\* lines 62-63: no else branch for a chain that is None
ProcessOptionsData ==
    /\ pc = "us_process"
    /\ listing' = NoListing
    /\ chain_answer' = NoChain
    /\ IF ~options_data.isNone
         THEN /\ df' = process_options_data(options_data)
              /\ pc' = "us_plots"
         ELSE /\ df' = df
              /\ pc' = "tab2_idle"
    /\ UNCHANGED <<pressed, selected_symbol, options_data, plots,
                   nifty_raw_data, df_nifty, option_type_filter,
                   strike_range, filtered_df, shown, crashed>>

\* lines 65-83: the figures, then the charts and the table, or the warning
GenerateUSPlots ==
    /\ pc = "us_plots"
    /\ IF ~df.isNone /\ ~empty(df)
         THEN LET figs == generate_us_plots(df)
              IN  /\ plots' = figs
                  /\ shown' = shown
                       \cup {"us_analysis"}
                       \cup (IF figs.fig_oi THEN {"us_fig_oi"} ELSE {})
                       \cup (IF figs.fig_volume THEN {"us_fig_volume"} ELSE {})
                       \cup {"us_table"}
         ELSE /\ plots' = plots
              /\ shown' = shown \cup {"us_warning"}
    /\ pc' = "tab2_idle"
    /\ UNCHANGED <<pressed, selected_symbol, listing, chain_answer,
                   options_data, df, nifty_raw_data, df_nifty,
                   option_type_filter, strike_range, filtered_df, crashed>>

\* lines 88-92 and 179-180: the index tab of a run whose button is the US one
Tab2Idle ==
    /\ pc = "tab2_idle"
    /\ shown' = shown \cup {"nifty_info"}
    /\ pc' = "ready"
    /\ UNCHANGED <<pressed, selected_symbol, listing, chain_answer,
                   options_data, df, plots, nifty_raw_data, df_nifty,
                   option_type_filter, strike_range, filtered_df, crashed>>

\* ---- Indian Market tab (streamlit_app.py 88-180) ------------------------
\* the US tab runs first and shows its hint (lines 84-85)
PressNifty ==
    /\ pc = "ready"
    /\ pressed' = "nifty"
    /\ shown' = {"us_info"}
    /\ StartRun
    /\ pc' = "nifty_fetch"
    /\ UNCHANGED selected_symbol

\* line 97
FetchNiftyOptions ==
    /\ pc = "nifty_fetch"
    /\ \E answer \in ScraperAnswers :
         nifty_raw_data' = fetch_nifty_options(answer)
    /\ pc' = "nifty_process"
    /\ UNCHANGED <<pressed, selected_symbol, listing, chain_answer,
                   options_data, df, plots, df_nifty, option_type_filter,
                   strike_range, filtered_df, shown, crashed>>

\* lines 99-101 and 177-178
ProcessNiftyOptionsData ==
    /\ pc = "nifty_process"
    /\ IF PayloadTruthy(nifty_raw_data)
         THEN /\ df_nifty' = process_nifty_options_data(nifty_raw_data)
              /\ shown' = shown
              /\ pc' = "nifty_plots"
         ELSE /\ df_nifty' = df_nifty
              /\ shown' = shown \cup {"nifty_error"}
              /\ pc' = "ready"
    /\ UNCHANGED <<pressed, selected_symbol, listing, chain_answer,
                   options_data, df, plots, nifty_raw_data,
                   option_type_filter, strike_range, filtered_df, crashed>>

\* lines 103-140 and 175-176: the summary, the figures and the charts, or
\* the warning
GenerateNiftyPlots ==
    /\ pc = "nifty_plots"
    /\ IF ~df_nifty.isNone /\ ~empty(df_nifty)
         THEN LET figs == generate_nifty_plots(df_nifty)
              IN  /\ plots' = figs
                  /\ shown' = shown
                       \cup {"nifty_summary"}
                       \cup (IF figs.fig_oi THEN {"nifty_fig_oi"} ELSE {})
                       \cup (IF figs.fig_pc_ratio
                               THEN {"nifty_fig_pc_ratio"} ELSE {})
                       \cup (IF figs.fig_volume
                               THEN {"nifty_fig_volume"} ELSE {})
                  /\ pc' = "nifty_filter"
         ELSE /\ plots' = plots
              /\ shown' = shown \cup {"nifty_warning"}
              /\ pc' = "ready"
    /\ UNCHANGED <<pressed, selected_symbol, listing, chain_answer,
                   options_data, df, nifty_raw_data, df_nifty,
                   option_type_filter, strike_range, filtered_df, crashed>>

\* lines 143-173: the two filter widgets, the filtered table and the
\* download.  int() of a NaN minimum raises ValueError, which nothing
\* catches.
FilterAndDownload ==
    /\ pc = "nifty_filter"
    /\ LET lo == series_min(StrikesOf(df_nifty))
           hi == series_max(StrikesOf(df_nifty))
       IN  IF lo = None
             THEN /\ crashed' = TRUE
                  /\ shown' = shown \cup {"exception"}
                  /\ UNCHANGED <<option_type_filter, strike_range, filtered_df>>
             ELSE /\ option_type_filter' \in {"All", "CE", "PE"}
                  /\ strike_range' \in SliderRanges(int(lo), int(hi))
                  /\ filtered_df' = apply_filters(df_nifty, option_type_filter',
                                                  strike_range')
                  /\ shown' = shown \cup {"nifty_table", "nifty_download"}
                  /\ crashed' = crashed
    /\ pc' = "ready"
    /\ UNCHANGED <<pressed, selected_symbol, listing, chain_answer,
                   options_data, df, plots, nifty_raw_data, df_nifty>>

Next ==
    \/ PressUS
    \/ GetStockInfo
    \/ FetchOptionsChain
    \/ ProcessOptionsData
    \/ GenerateUSPlots
    \/ Tab2Idle
    \/ PressNifty
    \/ FetchNiftyOptions
    \/ ProcessNiftyOptionsData
    \/ GenerateNiftyPlots
    \/ FilterAndDownload

Spec == Init /\ [][Next]_vars

\* ---- wide chains: more strikes than the volume chart keeps --------------
\* BaseStrikes call rows of volume BaseVol, and up to MaxExtra further rows
\* on higher strikes, in the call or in the put table
BaseCalls ==
    [i \in 1..BaseStrikes |->
        [cols |-> {"strike", "volume"}, strike |-> i, volume |-> BaseVol]]

ExtraRows ==
    [cols : {{"strike", "volume"}},
     strike : (BaseStrikes + 1)..(BaseStrikes + ExtraStrikes),
     volume : 1..ExtraVol]

WideChains ==
    {[ok |-> TRUE, calls |-> BaseCalls \o ec, puts |-> ep] :
        <<ec, ep>> \in
          {t \in SeqUpTo(ExtraRows, MaxExtra) \X SeqUpTo(ExtraRows, MaxExtra) :
              Len(t[1]) + Len(t[2]) <= MaxExtra}}

\* the US handler right after fetch_options_chain returned a wide chain
InitTop ==
    /\ pc = "us_process"
    /\ pressed = "us"
    /\ selected_symbol = symbols[1]
    /\ shown = {}
    /\ listing = [ok |-> TRUE, dates |-> <<1>>]
    /\ chain_answer \in WideChains
    /\ options_data = fetch_options_chain(selected_symbol, listing, chain_answer)
    /\ df = NoFrame
    /\ plots = NoPlots
    /\ nifty_raw_data = NoPayload
    /\ df_nifty = NoFrame
    /\ option_type_filter = "All"
    /\ strike_range = <<0, 0>>
    /\ filtered_df = <<>>
    /\ crashed = FALSE

NextTop ==
    \/ ProcessOptionsData
    \/ GenerateUSPlots
    \/ Tab2Idle

SpecTop == InitTop /\ [][NextTop]_vars

\* ---- helpers of the properties ------------------------------------------
Count(rows, P(_)) == Cardinality({i \in DOMAIN rows : P(rows[i])})

\* a is b with some rows left out
RECURSIVE IsSubSeq(_, _)
IsSubSeq(a, b) ==
    IF a = <<>> THEN TRUE
    ELSE IF b = <<>> THEN FALSE
    ELSE IF a[1] = b[1] THEN IsSubSeq(Tail(a), Tail(b))
    ELSE IsSubSeq(a, Tail(b))

\* the table the charts were drawn from
ChartFrame == IF pressed = "us" THEN df ELSE df_nifty

TopSet == {plots.top_strikes[i].Strike : i \in DOMAIN plots.top_strikes}

VolumeAt(rows, s) ==
    LET idx == {i \in DOMAIN rows : rows[i].Strike = s /\ rows[i].Volume # None}
        RECURSIVE Add(_)
        Add(I) == IF I = {} THEN 0
                  ELSE LET i == CHOOSE j \in I : TRUE
                       IN  rows[i].Volume + Add(I \ {i})
    IN  Add(idx)

FirstIndex(rows, s) == CHOOSE i \in DOMAIN rows :
                          /\ rows[i].Strike = s
                          /\ \A j \in 1..(i - 1) : rows[j].Strike # s

\* sum of openInterest over the non-empty sub-objects of one side
RECURSIVE PayloadOI(_, _)
PayloadOI(items, side) ==
    IF items = <<>> THEN 0
    ELSE (IF items[1][side].isDict /\ "openInterest" \in items[1][side].keys
            THEN items[1][side].openInterest ELSE 0)
         + PayloadOI(Tail(items), side)

\* ---- C1 -----------------------------------------------------------------
\* C1: an equity chain with k call rows and m put rows is flattened into
\* exactly k+m records; the first k are the call table's rows tagged 'Call',
\* the last m the put table's rows tagged 'Put', and inside each type the
\* strikes are ascending.
C1_FlattenEquity ==
    ~df.isNone =>
       LET k == Len(options_data.calls)
           m == Len(options_data.puts)
           r == df.rows
       IN  /\ Len(r) = k + m
           /\ \A i \in 1..k : r[i].Type = "Call"
           /\ \A i \in (k + 1)..(k + m) : r[i].Type = "Put"
           /\ \A i \in 1..(Len(r) - 1) :
                 r[i].Type = r[i + 1].Type => r[i].Strike <= r[i + 1].Strike
           /\ \A s \in {r[i].Strike : i \in DOMAIN r} :
                 /\ Count(r, LAMBDA x : x.Type = "Call" /\ x.Strike = s)
                    = Count(options_data.calls,
                            LAMBDA x : RowGet(x, "strike", 0) = s)
                 /\ Count(r, LAMBDA x : x.Type = "Put" /\ x.Strike = s)
                    = Count(options_data.puts,
                            LAMBDA x : RowGet(x, "strike", 0) = s)

\* a chain whose call table lists its strikes in descending order and whose
\* put table is not empty has been flattened
C1_Witness ==
    /\ ~df.isNone
    /\ Len(options_data.calls) = 2
    /\ RowGet(options_data.calls[1], "strike", 0)
         > RowGet(options_data.calls[2], "strike", 0)
    /\ Len(options_data.puts) >= 1

\* ---- C4 -----------------------------------------------------------------
\* C4: the strikes kept for the volume chart are at most 20, each of them
\* is a strike of the input records, and the rows plotted are rows of the
\* input, in the input's order.
C4_TopStrikesBounded ==
    plots.fig_volume =>
       /\ Cardinality(TopSet) <= 20
       /\ TopSet \subseteq {ChartFrame.rows[i].Strike : i \in DOMAIN ChartFrame.rows}
       /\ IsSubSeq(plots.plot_df, ChartFrame.rows)

\* a table with more than 20 strikes has been charted
C4_Witness ==
    /\ plots.fig_volume
    /\ Cardinality(StrikesOf(ChartFrame)) > 20
    /\ Cardinality(TopSet) = 20

\* ---- C2 -----------------------------------------------------------------
IndexData == nifty_raw_data.data

StrikeKeys(items) == {items[i].strikePrice : i \in DOMAIN items}

\* C2 (as stated): for every strike, the flattened table holds as many CE
\* records as the payload has entries of that strike with a CE sub-object,
\* and as many PE records as it has entries with a PE sub-object.
C2_RecordPerSubObject ==
    ~df_nifty.isNone /\ nifty_raw_data.hasData =>
       \A s \in StrikeKeys(IndexData) :
          /\ Count(df_nifty.rows, LAMBDA r : r.Type = "CE" /\ r.Strike = s)
             = Count(IndexData, LAMBDA e : e.strikePrice = s /\ e.CE.isDict)
          /\ Count(df_nifty.rows, LAMBDA r : r.Type = "PE" /\ r.Strike = s)
             = Count(IndexData, LAMBDA e : e.strikePrice = s /\ e.PE.isDict)

\* C2 (amended): for every strike, the flattened table holds as many CE
\* records as the payload has entries of that strike with a non-empty CE
\* sub-object, and as many PE records as it has entries with a non-empty PE
\* sub-object; it holds no other record.
C2_RecordPerNonEmptySubObject ==
    ~df_nifty.isNone /\ nifty_raw_data.hasData =>
       /\ \A s \in StrikeKeys(IndexData) :
             /\ Count(df_nifty.rows, LAMBDA r : r.Type = "CE" /\ r.Strike = s)
                = Count(IndexData, LAMBDA e : /\ e.strikePrice = s
                                              /\ e.CE.isDict /\ e.CE.keys # {})
             /\ Count(df_nifty.rows, LAMBDA r : r.Type = "PE" /\ r.Strike = s)
                = Count(IndexData, LAMBDA e : /\ e.strikePrice = s
                                              /\ e.PE.isDict /\ e.PE.keys # {})
       /\ \A i \in DOMAIN df_nifty.rows :
             /\ df_nifty.rows[i].Strike \in StrikeKeys(IndexData)
             /\ df_nifty.rows[i].Type \in {"CE", "PE"}

\* a payload with an entry that has a CE sub-object and no PE one, alone on
\* its strike, has been flattened into one record at that strike
C2_Witness ==
    /\ ~df_nifty.isNone
    /\ \E i \in DOMAIN IndexData :
          /\ IndexData[i].CE.isDict /\ IndexData[i].CE.keys # {}
          /\ ~IndexData[i].PE.isDict
          /\ IndexData[i].strikePrice # None
          /\ \A j \in DOMAIN IndexData :
                j # i => IndexData[j].strikePrice # IndexData[i].strikePrice
          /\ Count(df_nifty.rows,
                   LAMBDA r : r.Strike = IndexData[i].strikePrice) = 1

\* ---- C3 -----------------------------------------------------------------
IndexCharted == pressed = "nifty" /\ plots.fig_pc_ratio

\* C3 (as stated): the put-call ratio is undefined when the CE open
\* interest sums to zero, and in every other case it is defined,
\* non-negative and equal to (PE open interest) / (CE open interest).
C3_RatioDefinedUnlessCallsZero ==
    IndexCharted =>
       LET ce == PayloadOI(IndexData, "CE")
           pe == PayloadOI(IndexData, "PE")
           ratio == plots.pc_ratio
       IN  IF ce = 0 THEN ~ratio.defined
           ELSE /\ ratio.defined
                /\ ratio.den > 0 /\ ratio.num >= 0
                /\ ratio.num * ce = pe * ratio.den

\* C3 (amended): the put-call ratio is undefined when the CE open interest
\* sums to zero or the table has no PE record, and in every other case it
\* is defined, non-negative and equal to (PE open interest) / (CE open
\* interest).
C3_RatioDefinedUnlessCallsZeroOrNoPuts ==
    IndexCharted =>
       LET ce == PayloadOI(IndexData, "CE")
           pe == PayloadOI(IndexData, "PE")
           ratio == plots.pc_ratio
       IN  IF ce = 0 \/ Count(df_nifty.rows, LAMBDA r : r.Type = "PE") = 0
             THEN ~ratio.defined
             ELSE /\ ratio.defined
                  /\ ratio.den > 0 /\ ratio.num >= 0
                  /\ ratio.num * ce = pe * ratio.den

\* a ratio other than 0 and 1 has been computed
C3_Witness ==
    /\ IndexCharted
    /\ plots.pc_ratio.defined
    /\ plots.pc_ratio.num > 0
    /\ plots.pc_ratio.num # plots.pc_ratio.den

\* ---- C5 -----------------------------------------------------------------
\* C5: whatever the external calls return, no step of either pipeline
\* raises an exception that leaves the script.
C5_NoUncaughtException == ~crashed

\* ---- C6 -----------------------------------------------------------------
RunEnded == pc = "ready" /\ ~crashed

\* C6: a run whose fetch failed, or whose table is None or empty, ends with
\* a warning or informational message of the pressed tab on the page.
C6_MessageInPlaceOfData ==
    /\ RunEnded /\ pressed = "us" /\ (options_data.isNone \/ df.isNone \/ empty(df))
         => shown \cap {"us_warning", "us_info"} # {}
    /\ RunEnded /\ pressed = "nifty" /\ (df_nifty.isNone \/ empty(df_nifty))
         => shown \cap {"nifty_warning", "nifty_error", "nifty_info"} # {}

\* ---- C7 -----------------------------------------------------------------
Earliest(dates) == CHOOSE d \in Range(dates) : \A e \in Range(dates) : d <= e

\* C7: fetch_options_chain returns None when a provider request fails or no
\* expiration date is listed; otherwise the chain of the earliest listed
\* expiration date, with that answer's two tables.
C7_EarliestExpiration ==
    pc = "us_process" =>
       IF ~listing.ok \/ listing.dates = <<>> \/ ~chain_answer.ok
         THEN options_data.isNone
         ELSE /\ ~options_data.isNone
              /\ options_data.expiration_date = Earliest(listing.dates)
              /\ options_data.calls = chain_answer.calls
              /\ options_data.puts = chain_answer.puts

\* ---- C8 -----------------------------------------------------------------
UniqueKeys(rows, key(_)) ==
    \A i, j \in DOMAIN rows : i # j => key(rows[i]) # key(rows[j])

\* C8: no two records of a flattened table share (symbol, type, strike,
\* expiration).
C8_UniqueRecordKeys ==
    /\ UniqueKeys(df.rows,
          LAMBDA r : <<r.Symbol, r.Type, r.Strike, r.Expiration_Date>>)
    /\ UniqueKeys(df_nifty.rows, LAMBDA r : <<r.Symbol, r.Type, r.Strike>>)

\* ---- C10 ----------------------------------------------------------------
\* C10: the filtered table is the rows of the flattened table of the
\* selected type whose strike is inside the slider range, and with the
\* default settings it is the whole flattened table.
C10_DefaultFilterKeepsAll ==
    "nifty_table" \in shown =>
       /\ filtered_df =
            SelectSeq(df_nifty.rows,
               LAMBDA r : /\ option_type_filter \in {"All", r.Type}
                          /\ r.Strike # None
                          /\ strike_range[1] * StrikeUnit <= r.Strike
                          /\ r.Strike <= strike_range[2] * StrikeUnit)
       /\ (/\ option_type_filter = "All"
           /\ strike_range = <<int(series_min(StrikesOf(df_nifty))),
                               int(series_max(StrikesOf(df_nifty)))>>)
            => filtered_df = df_nifty.rows

\* ---- C9 -----------------------------------------------------------------
Unselected == StrikesOf(ChartFrame) \ TopSet

\* C9 (as stated): the chart keeps the 20 strikes of greatest summed
\* volume, and of two strikes of equal summed volume at the boundary the
\* one whose first record comes earlier in the table is kept.
C9_TieByInputOrder ==
    plots.fig_volume =>
       /\ Cardinality(TopSet) = IF Cardinality(StrikesOf(ChartFrame)) < 20
                                  THEN Cardinality(StrikesOf(ChartFrame)) ELSE 20
       /\ \A s \in TopSet, u \in Unselected :
             /\ VolumeAt(ChartFrame.rows, s) >= VolumeAt(ChartFrame.rows, u)
             /\ VolumeAt(ChartFrame.rows, s) = VolumeAt(ChartFrame.rows, u)
                  => FirstIndex(ChartFrame.rows, s) < FirstIndex(ChartFrame.rows, u)

\* C9 (amended): the chart keeps the 20 strikes of greatest summed volume,
\* and of two strikes of equal summed volume at the boundary the lower
\* strike is kept.
C9_TieByLowerStrike ==
    plots.fig_volume =>
       /\ Cardinality(TopSet) = IF Cardinality(StrikesOf(ChartFrame)) < 20
                                  THEN Cardinality(StrikesOf(ChartFrame)) ELSE 20
       /\ \A s \in TopSet, u \in Unselected :
             /\ VolumeAt(ChartFrame.rows, s) >= VolumeAt(ChartFrame.rows, u)
             /\ VolumeAt(ChartFrame.rows, s) = VolumeAt(ChartFrame.rows, u)
                  => s < u

\* a kept and a dropped strike have the same summed volume
C9_Witness ==
    /\ plots.fig_volume
    /\ \E s \in TopSet, u \in Unselected :
          VolumeAt(ChartFrame.rows, s) = VolumeAt(ChartFrame.rows, u)

====
